---- MODULE Spec2Model ----
(***************************************************************************)
(* A model of the ECS runtime: Entity (src/src/entity.ts), System          *)
(* (src/src/performance.ts) and the ECS coordinator (src/src/ecs.ts).      *)
(*                                                                         *)
(* Every method of the source is an operator from a heap record (the       *)
(* fields of all objects) to the heap record after the call; an action     *)
(* applies one public method to the current heap and commits the result.   *)
(* The abstract hooks of a System (enter, exit, update) own no code in the *)
(* repository: they are recorded as events and change nothing.  test() is  *)
(* a predicate over the presence of component names.  The clock            *)
(* (performance.now, lastUpdate, elapsed) decides nothing and is left out. *)
(***************************************************************************)
EXTENDS Integers, Sequences, FiniteSets, TLC

\* ---- bounds of the model ------------------------------------------------
NumEntities == 2
NumSystems == 2
MaxFrequency == 2
MaxCounter == 3
MaxSteps == 8
MaxFieldSteps == 5
MaxSetupSteps == 3
MaxMembers == 2
MaxValue == 1

Entities == 1..NumEntities
Systems == 1..NumSystems
Names == {"X", "Y"}
Fields == {"a", "b"}
Values == 0..MaxValue

\* "undefined" for an entity reference / a component
NoEntity == 0
NoComponent == [absent |-> TRUE]

ComponentValues == [Fields -> Values]
DefaultComponent == [f \in Fields |-> 0]
\* a ComProps argument: some of the fields, with their new values
ComPropsValues == UNION {[D -> Values] : D \in SUBSET Fields}
\* a ComPropsObj argument: component names in key order, each with its ComProps
NameSeqs == {<<>>} \cup {<<n>> : n \in Names}
              \cup {q \in Names \X Names : q[1] # q[2]}

VARIABLES
    entities,              \* ECS.entities
    entitiesSystemsDirty,  \* ECS.entitiesSystemsDirty
    systems,               \* ECS.systems
    updateCounter,         \* ECS.updateCounter
    sys_entities,          \* System.entities, per system
    ent_systems,           \* Entity.systems, per entity
    systemsDirty,          \* Entity.systemsDirty, per entity
    ecs,                   \* Entity.ecs is set, per entity
    components,            \* Entity.components, per entity
    events,                \* hook calls made by the last operation, in order
    last,                  \* the last operation: its name, arguments, result
    steps,                 \* number of operations done so far
    entered,               \* the (system, entity) pairs whose last hook call
                           \* among enter and exit was enter
    removed                \* the entities removeEntity / removeEntityById
                           \* returned and addEntity has not taken since

vars == <<entities, entitiesSystemsDirty, systems, updateCounter, sys_entities,
          ent_systems, systemsDirty, ecs, components, events, last, steps,
          entered, removed>>

\* ---- helpers ------------------------------------------------------------
Range(seq) == {seq[i] : i \in 1..Len(seq)}

Count(seq, x) == Cardinality({i \in 1..Len(seq) : seq[i] = x})

\* Array.prototype.indexOf: 0-based index of the first occurrence, or -1
IndexOf(array, x) ==
    IF \E i \in 1..Len(array) : array[i] = x
    THEN (CHOOSE i \in 1..Len(array) :
             array[i] = x /\ \A j \in 1..(i - 1) : array[j] # x) - 1
    ELSE -1

\* utils.fastSplice(array, startIndex, removeCount), startIndex 0-based
fastSplice(array, startIndex, removeCount) ==
    LET len == Len(array) IN
    IF startIndex >= len \/ removeCount = 0 THEN array
    ELSE LET rc == IF startIndex + removeCount > len
                   THEN len - startIndex ELSE removeCount
             removeLen == len - rc
         IN [i \in 1..removeLen |->
                IF i - 1 < startIndex THEN array[i] ELSE array[i + rc]]

\* the heap: the fields the methods read and write
Heap == [entities |-> entities,
         entitiesSystemsDirty |-> entitiesSystemsDirty,
         systems |-> systems,
         updateCounter |-> updateCounter,
         sys_entities |-> sys_entities,
         ent_systems |-> ent_systems,
         systemsDirty |-> systemsDirty,
         ecs |-> ecs,
         components |-> components,
         events |-> <<>>,
         ret |-> NoEntity,
         error |-> FALSE]

\* the pairs whose last enter/exit call is enter, after the calls evs[i+1..]
RECURSIVE EnteredAfter(_, _, _)
EnteredAfter(cur, evs, i) ==
    IF i >= Len(evs) THEN cur
    ELSE LET ev == evs[i + 1]
             pair == <<ev[2], ev[3]>>
         IN EnteredAfter(IF ev[1] = "enter" THEN cur \cup {pair}
                         ELSE IF ev[1] = "exit" THEN cur \ {pair}
                         ELSE cur,
                         evs, i + 1)

\* the state after a call is the heap it returns; runs of more than MaxSteps
\* operations and member lists longer than MaxMembers are outside the model
Store(h) ==
    /\ entities' = h.entities
    /\ entitiesSystemsDirty' = h.entitiesSystemsDirty
    /\ systems' = h.systems
    /\ updateCounter' = h.updateCounter
    /\ sys_entities' = h.sys_entities
    /\ ent_systems' = h.ent_systems
    /\ systemsDirty' = h.systemsDirty
    /\ ecs' = h.ecs
    /\ components' = h.components
    /\ events' = h.events
    /\ entered' = EnteredAfter(entered, h.events, 0)

Commit(h) ==
    /\ steps < MaxSteps
    /\ \A s \in Systems : Len(h.sys_entities[s]) <= MaxMembers
    /\ steps' = steps + 1
    /\ Store(h)

Emit(h, kind, s, e) == [h EXCEPT !.events = Append(@, <<kind, s, e>>)]

\* the names of the components an entity holds
Present(comps) == {n \in Names : comps[n] # NoComponent}

\* System.frequency, the constructor's argument: system 1 runs every 2nd tick
frequency == [s \in Systems |-> (s % MaxFrequency) + 1]

\* ---- System.test: eligibility over component-name presence --------------
Required(s) == IF s % 3 = 1 THEN {"X"} ELSE IF s % 3 = 2 THEN {"Y"} ELSE {"X", "Y"}

test(h, s, e) == Required(s) \subseteq Present(h.components[e])

\* ---- Entity ------------------------------------------------------------
\* setSystemsDirty without the test of the dirty flag
setSystemsDirtyAlways(h, e) ==
    IF h.ecs[e]
    THEN [h EXCEPT !.systemsDirty[e] = TRUE,
                   !.entitiesSystemsDirty = Append(@, e)]
    ELSE h

setSystemsDirty(h, e) ==
    IF ~h.systemsDirty[e] /\ h.ecs[e]
    THEN [h EXCEPT !.systemsDirty[e] = TRUE,
                   !.entitiesSystemsDirty = Append(@, e)]
    ELSE h

addToECS(h, e) == setSystemsDirty([h EXCEPT !.ecs[e] = TRUE], e)

EntityAddSystem(h, e, s) == [h EXCEPT !.ent_systems[e] = Append(@, s)]

EntityRemoveSystem(h, e, s) ==
    LET index == IndexOf(h.ent_systems[e], s) IN
    IF index # -1
    THEN [h EXCEPT !.ent_systems[e] = fastSplice(@, index, 1)]
    ELSE h

addComponent(h, e, name, component) ==
    setSystemsDirty([h EXCEPT !.components[e][name] = component], e)

\* removeComponent without the early return for a name the entity lacks
removeComponentAlways(h, e, name) ==
    setSystemsDirty([h EXCEPT !.components[e][name] = NoComponent], e)

removeComponent(h, e, name) ==
    IF h.components[e][name] = NoComponent THEN h
    ELSE setSystemsDirty([h EXCEPT !.components[e][name] = NoComponent], e)

\* ---- System ------------------------------------------------------------
SystemAddEntity(h, s, e) ==
    LET h1 == EntityAddSystem(h, e, s)
        h2 == [h1 EXCEPT !.sys_entities[s] = Append(@, e)]
    IN Emit(h2, "enter", s, e)

SystemRemoveEntity(h, s, e) ==
    LET index == IndexOf(h.sys_entities[s], e) IN
    IF index # -1
    THEN LET h1 == EntityRemoveSystem(h, e, s)
             h2 == [h1 EXCEPT !.sys_entities[s] = fastSplice(@, index, 1)]
         IN Emit(h2, "exit", s, e)
    ELSE h

\* for (const entity of this.entities) this.update(entity, elapsed)
RECURSIVE updateAllLoop(_, _, _)
updateAllLoop(h, s, i) ==
    IF i >= Len(h.sys_entities[s]) THEN h
    ELSE updateAllLoop(Emit(h, "update", s, h.sys_entities[s][i + 1]), s, i + 1)

updateAll(h, s) ==
    Emit(updateAllLoop(Emit(h, "preUpdate", s, NoEntity), s, 0),
         "postUpdate", s, NoEntity)

\* for (const entity of this.entities) { entity.removeSystem(this); this.exit(entity) }
RECURSIVE SystemDisposeLoop(_, _, _)
SystemDisposeLoop(h, s, i) ==
    IF i >= Len(h.sys_entities[s]) THEN h
    ELSE LET e == h.sys_entities[s][i + 1]
         IN SystemDisposeLoop(Emit(EntityRemoveSystem(h, e, s), "exit", s, e), s, i + 1)

SystemDispose(h, s) == SystemDisposeLoop(h, s, 0)

\* Entity.dispose: for (const system of this.systems) system.removeEntity(this)
\* The array iterator re-reads this.systems and its length at every step.
RECURSIVE EntityDisposeLoop(_, _, _)
EntityDisposeLoop(h, e, i) ==
    IF i >= Len(h.ent_systems[e]) THEN h
    ELSE EntityDisposeLoop(SystemRemoveEntity(h, h.ent_systems[e][i + 1], e), e, i + 1)

EntityDispose(h, e) == EntityDisposeLoop(h, e, 0)

\* updateComponent that assigns the data as the component instead of merging
updateComponentAssign(h, e, name, data) ==
    LET component == h.components[e][name] IN
    IF DOMAIN data = {} THEN h
    ELSE IF component = NoComponent THEN [h EXCEPT !.error = TRUE]
    ELSE [h EXCEPT !.components[e][name] =
              [f \in Fields |-> IF f \in DOMAIN data THEN data[f] ELSE 0]]

\* Entity.updateComponent: for (const key in data) component[key] = data[key]
\* Writing a property of undefined throws a TypeError, before anything is set.
updateComponent(h, e, name, data) ==
    LET component == h.components[e][name] IN
    IF DOMAIN data = {} THEN h
    ELSE IF component = NoComponent THEN [h EXCEPT !.error = TRUE]
    ELSE [h EXCEPT !.components[e][name] =
              [f \in Fields |-> IF f \in DOMAIN data THEN data[f] ELSE component[f]]]

\* Entity.updateComponents: updateComponent for each key, in key order; a throw
\* ends the loop and leaves the earlier keys applied.
RECURSIVE updateComponentsLoop(_, _, _, _, _)
updateComponentsLoop(h, e, keys, componentsData, i) ==
    IF i >= Len(keys) \/ h.error THEN h
    ELSE updateComponentsLoop(
             updateComponent(h, e, keys[i + 1], componentsData[keys[i + 1]]),
             e, keys, componentsData, i + 1)

updateComponents(h, e, keys, componentsData) ==
    updateComponentsLoop(h, e, keys, componentsData, 0)

\* ---- ECS ---------------------------------------------------------------
ECSAddEntity(h, e) == addToECS([h EXCEPT !.entities = Append(@, e)], e)

\* the index comes from entitiesSystemsDirty, the splice is applied to entities
removeEntityIfDirty(h, e) ==
    LET index == IndexOf(h.entitiesSystemsDirty, e) IN
    IF index # -1
    THEN [h EXCEPT !.entities = fastSplice(@, index, 1)]
    ELSE h

ECSRemoveEntity(h, e) ==
    LET index == IndexOf(h.entities, e) IN
    IF index # -1
    THEN LET entityRemoved == h.entities[index + 1]
             h1 == EntityDispose(h, e)
             h2 == removeEntityIfDirty(h1, entityRemoved)
         IN [h2 EXCEPT !.entities = fastSplice(@, index, 1),
                       !.ret = entityRemoved]
    ELSE h

\* entity ids are the entities' identities (DefaultUIDGenerator never repeats)
removeEntityById(h, entityId) ==
    LET found == {i \in 1..Len(h.entities) : h.entities[i] = entityId} IN
    IF found = {} THEN h
    ELSE LET i == (CHOOSE k \in found : \A j \in found : k <= j) - 1
             entity == h.entities[i + 1]
             h1 == EntityDispose(h, entity)
             h2 == removeEntityIfDirty(h1, entity)
         IN [h2 EXCEPT !.entities = fastSplice(@, i, 1), !.ret = entity]

\* for (const entity of this.entities) if (system.test(entity)) system.addEntity(entity)
RECURSIVE addSystemLoop(_, _, _)
addSystemLoop(h, s, i) ==
    IF i >= Len(h.entities) THEN h
    ELSE LET entity == h.entities[i + 1]
         IN addSystemLoop(IF test(h, s, entity) THEN SystemAddEntity(h, s, entity) ELSE h,
                          s, i + 1)

\* addSystem without the back-fill loop
ECSAddSystemNoBackFill(h, s) == [h EXCEPT !.systems = Append(@, s)]

ECSAddSystem(h, s) == addSystemLoop([h EXCEPT !.systems = Append(@, s)], s, 0)

ECSRemoveSystem(h, s) ==
    LET index == IndexOf(h.systems, s) IN
    IF index # -1
    THEN SystemDispose([h EXCEPT !.systems = fastSplice(@, index, 1)], s)
    ELSE h

\* the inner loop's body admitting every entity the system does not hold yet
cleanOneAdmitAll(h, entity, system) ==
    LET index == IndexOf(h.ent_systems[entity], system)
    IN IF index = -1 THEN SystemAddEntity(h, system, entity) ELSE h

\* the body of cleanDirtyEntities' inner loop, for one entity and one system
cleanOne(h, entity, system) ==
    LET index == IndexOf(h.ent_systems[entity], system)
        entity_test == test(h, system, entity)
    IN IF index = -1 /\ entity_test THEN SystemAddEntity(h, system, entity)
       ELSE IF index # -1 /\ ~entity_test THEN SystemRemoveEntity(h, system, entity)
       ELSE h

RECURSIVE cleanSystemsLoop(_, _, _)
cleanSystemsLoop(h, entity, j) ==
    IF j >= Len(h.systems) THEN h
    ELSE cleanSystemsLoop(cleanOne(h, entity, h.systems[j + 1]), entity, j + 1)

RECURSIVE cleanEntitiesLoop(_, _)
cleanEntitiesLoop(h, i) ==
    IF i >= Len(h.entitiesSystemsDirty) THEN h
    ELSE LET entity == h.entitiesSystemsDirty[i + 1]
             h1 == cleanSystemsLoop(h, entity, 0)
         IN cleanEntitiesLoop([h1 EXCEPT !.systemsDirty[entity] = FALSE], i + 1)

\* cleanDirtyEntities without the reset of the queue
cleanDirtyEntitiesKeepQueue(h) == cleanEntitiesLoop(h, 0)

cleanDirtyEntities(h) ==
    [cleanEntitiesLoop(h, 0) EXCEPT !.entitiesSystemsDirty = <<>>]

\* the gate applied to the counter after its increment
gateMissNextTick(counter, freq) == (counter + 1) % freq > 0

\* the frequency gate of ECS.update
gateMiss(counter, freq) == counter % freq > 0

RECURSIVE updateLoop(_, _)
updateLoop(h, i) ==
    IF i >= Len(h.systems) THEN h
    ELSE LET system == h.systems[i + 1] IN
         IF gateMiss(h.updateCounter, frequency[system]) THEN h
         ELSE LET h1 == IF Len(h.entitiesSystemsDirty) > 0
                        THEN cleanDirtyEntities(h) ELSE h
              IN updateLoop(updateAll(h1, system), i + 1)

\* a variant whose loop skips a gated-out system and goes on with the next
RECURSIVE updateLoopContinue(_, _)
updateLoopContinue(h, i) ==
    IF i >= Len(h.systems) THEN h
    ELSE LET system == h.systems[i + 1] IN
         IF gateMiss(h.updateCounter, frequency[system])
         THEN updateLoopContinue(h, i + 1)
         ELSE LET h1 == IF Len(h.entitiesSystemsDirty) > 0
                        THEN cleanDirtyEntities(h) ELSE h
              IN updateLoopContinue(updateAll(h1, system), i + 1)

ECSUpdateContinue(h) ==
    [updateLoopContinue(h, 0) EXCEPT !.updateCounter = @ + 1]

ECSUpdate(h) == [updateLoop(h, 0) EXCEPT !.updateCounter = @ + 1]

\* ---- the state after construction ---------------------------------------
NoComponents == [n \in Names |-> NoComponent]

NoOp == [op |-> "init", ent |-> NoEntity, sys |-> 0, name |-> "",
         ret |-> NoEntity, error |-> FALSE, counter |-> 0,
         preIn |-> FALSE, preDirty |-> FALSE, fresh |-> FALSE,
         preNames |-> {},
         keys |-> <<>>, componentsData |-> <<>>]

\* what an operation on entity e records before it runs
EntityOp(op, e) ==
    [NoOp EXCEPT !.op = op, !.ent = e,
                 !.preIn = e \in Range(entities),
                 !.preDirty = systemsDirty[e]]

\* what an operation on system s records before it runs; a system is fresh
\* when it is as its constructor left it: not active, no members
SystemOp(op, s) ==
    [NoOp EXCEPT !.op = op, !.sys = s,
                 !.preIn = s \in Range(systems),
                 !.fresh = s \notin Range(systems) /\ sys_entities[s] = <<>>]

Init ==
    /\ entities = <<>>
    /\ entitiesSystemsDirty = <<>>
    /\ systems = <<>>
    /\ updateCounter = 0
    /\ sys_entities = [s \in Systems |-> <<>>]
    /\ ent_systems = [e \in Entities |-> <<>>]
    /\ systemsDirty = [e \in Entities |-> FALSE]
    /\ ecs = [e \in Entities |-> FALSE]
    /\ components = [e \in Entities |-> NoComponents]
    /\ events = <<>>
    /\ last = NoOp
    /\ steps = 0
    /\ entered = {}
    /\ removed = {}

\* ---- actions: one public method each ------------------------------------
\* ecs.addEntity(e), for an entity that is not in the population
AddEntity(e) ==
    /\ e \notin Range(entities)
    /\ Commit(ECSAddEntity(Heap, e))
    /\ removed' = removed \ {e}
    /\ last' = EntityOp("addEntity", e)

RemoveEntity(e) ==
    LET h == ECSRemoveEntity(Heap, e) IN
    /\ Commit(h)
    /\ removed' = IF h.ret = NoEntity THEN removed ELSE removed \cup {h.ret}
    /\ last' = [EntityOp("removeEntity", e) EXCEPT !.ret = h.ret]

RemoveEntityById(id) ==
    LET h == removeEntityById(Heap, id) IN
    /\ Commit(h)
    /\ removed' = IF h.ret = NoEntity THEN removed ELSE removed \cup {h.ret}
    /\ last' = [EntityOp("removeEntityById", id) EXCEPT !.ret = h.ret]

\* ecs.addSystem(s), for a system that is not active
AddSystem(s) ==
    /\ s \notin Range(systems)
    /\ Commit(ECSAddSystem(Heap, s))
    /\ removed' = removed
    /\ last' = SystemOp("addSystem", s)

RemoveSystem(s) ==
    /\ Commit(ECSRemoveSystem(Heap, s))
    /\ removed' = removed
    /\ last' = SystemOp("removeSystem", s)

Update ==
    /\ updateCounter < MaxCounter
    /\ Commit(ECSUpdate(Heap))
    /\ removed' = removed
    /\ last' = [NoOp EXCEPT !.op = "update", !.counter = updateCounter]

AddComponent(e, name, component) ==
    /\ Commit(addComponent(Heap, e, name, component))
    /\ removed' = removed
    /\ last' = [EntityOp("addComponent", e) EXCEPT
                   !.name = name, !.preNames = Present(components[e])]

RemoveComponent(e, name) ==
    /\ Commit(removeComponent(Heap, e, name))
    /\ removed' = removed
    /\ last' = [EntityOp("removeComponent", e) EXCEPT
                   !.name = name, !.preNames = Present(components[e])]

SetSystemsDirty(e) ==
    /\ Commit(setSystemsDirty(Heap, e))
    /\ removed' = removed
    /\ last' = EntityOp("setSystemsDirty", e)

Dispose(e) ==
    /\ Commit(EntityDispose(Heap, e))
    /\ removed' = removed
    /\ last' = EntityOp("dispose", e)

UpdateComponent(e, name, data) ==
    LET h == updateComponent(Heap, e, name, data) IN
    /\ Commit(h)
    /\ removed' = removed
    /\ last' = [EntityOp("updateComponent", e) EXCEPT
                   !.name = name, !.error = h.error, !.keys = <<name>>,
                   !.componentsData = [n \in {name} |-> data]]

UpdateComponents(e, keys, componentsData) ==
    LET h == updateComponents(Heap, e, keys, componentsData) IN
    /\ Commit(h)
    /\ removed' = removed
    /\ last' = [EntityOp("updateComponents", e) EXCEPT
                   !.error = h.error, !.keys = keys,
                   !.componentsData = componentsData]

Next ==
    \/ \E e \in Entities : AddEntity(e)
    \/ \E e \in Entities : RemoveEntity(e)
    \/ \E e \in Entities : RemoveEntityById(e)
    \/ \E s \in Systems : AddSystem(s)
    \/ \E s \in Systems : RemoveSystem(s)
    \/ Update
    \/ \E e \in Entities, name \in Names : AddComponent(e, name, DefaultComponent)
    \/ \E e \in Entities, name \in Names : RemoveComponent(e, name)
    \/ \E e \in Entities : SetSystemsDirty(e)
    \/ \E e \in Entities : Dispose(e)

Spec == Init /\ [][Next]_vars

\* The component data of one entity: components of any value, field updates,
\* and enough of the coordinator to make the entity dirty, clean and a member.
FieldEntity == CHOOSE e \in Entities : \A other \in Entities : e <= other

FieldsAddEntity == steps < MaxFieldSteps /\ AddEntity(FieldEntity)

FieldsAddSystem == steps < MaxFieldSteps /\ \E s \in Systems : AddSystem(s)

FieldsUpdate == steps < MaxFieldSteps /\ Update

FieldsAddComponent ==
    /\ steps < MaxFieldSteps
    /\ \E name \in Names, component \in ComponentValues :
          AddComponent(FieldEntity, name, component)

FieldsRemoveComponent ==
    /\ steps < MaxFieldSteps
    /\ \E name \in Names : RemoveComponent(FieldEntity, name)

FieldsUpdateComponent ==
    /\ steps < MaxFieldSteps
    /\ \E name \in Names, data \in ComPropsValues :
          UpdateComponent(FieldEntity, name, data)

FieldsUpdateComponents ==
    /\ steps < MaxFieldSteps
    /\ \E keys \in NameSeqs :
          \E componentsData \in [Range(keys) -> ComPropsValues] :
             UpdateComponents(FieldEntity, keys, componentsData)

NextFields ==
    \/ FieldsAddEntity
    \/ FieldsAddSystem
    \/ FieldsUpdate
    \/ FieldsAddComponent
    \/ FieldsRemoveComponent
    \/ FieldsUpdateComponent
    \/ FieldsUpdateComponents

SpecFields == Init /\ [][NextFields]_vars

\* ---- ticks without end -------------------------------------------------
\* A bounded number of set-up operations, and update() called for ever.  The
\* gate of update reads updateCounter only modulo a frequency, so the counter
\* is kept modulo the least common multiple of the frequencies.
TickPeriod ==
    LET common == {p \in 1..(MaxFrequency ^ NumSystems) :
                      \A s \in Systems : p % frequency[s] = 0}
    IN CHOOSE p \in common : \A q \in common : p <= q

Tick ==
    /\ Store([ECSUpdate(Heap) EXCEPT !.updateCounter = @ % TickPeriod])
    /\ steps' = steps
    /\ removed' = removed
    /\ last' = [NoOp EXCEPT !.op = "update", !.counter = updateCounter]

TicksAddEntity == steps < MaxSetupSteps /\ \E e \in Entities : AddEntity(e)

TicksAddSystem == steps < MaxSetupSteps /\ \E s \in Systems : AddSystem(s)

TicksAddComponent ==
    /\ steps < MaxSetupSteps
    /\ \E e \in Entities, name \in Names :
          AddComponent(e, name, DefaultComponent)

TicksRemoveComponent ==
    /\ steps < MaxSetupSteps
    /\ \E e \in Entities, name \in Names : RemoveComponent(e, name)

NextTicks ==
    \/ TicksAddEntity
    \/ TicksAddSystem
    \/ TicksAddComponent
    \/ TicksRemoveComponent
    \/ Tick

SpecTicks == Init /\ [][NextTicks]_vars /\ WF_vars(Tick)


\* ---- observations on the last operation ---------------------------------
\* how often a hook was called for (s, e) by the last operation
Calls(kind, s, e) == Count(events, <<kind, s, e>>)

\* the calls of one hook made by the last operation, in order
CallsOf(kind) == SelectSeq(events, LAMBDA ev : ev[1] = kind)

IsMember(s, e) == e \in Range(sys_entities[s])

\* ---- C1 ----------------------------------------------------------------
\* C1: between operations, for every entity e and every system s (active or
\* removed), e is in s's member list iff s is in e.systems.
C1_MembershipAgreement ==
    \A e \in Entities, s \in Systems :
        e \in Range(sys_entities[s]) <=> s \in Range(ent_systems[e])

\* ---- C2 ----------------------------------------------------------------
\* C2: Entity.dispose() on an entity that is in k >= 1 systems calls exit on
\* each of them exactly once, in the order of entity.systems, and leaves the
\* entity in no member list and with entity.systems empty.
\* "Currently a member of k systems": entity.systems lists exactly the systems
\* that hold the entity, each once.
C2_DisposeExitsEverySystem ==
    [][\A e \in Entities :
          (/\ last'.op = "dispose" /\ last'.ent = e
           /\ Len(ent_systems[e]) >= 1
           /\ \A s \in Systems : /\ Count(ent_systems[e], s) <= 1
                                 /\ Count(sys_entities[s], e) = Count(ent_systems[e], s))
          => /\ events' = [i \in 1..Len(ent_systems[e]) |->
                              <<"exit", ent_systems[e][i], e>>]
             /\ ent_systems'[e] = <<>>
             /\ \A s \in Systems : e \notin Range(sys_entities'[s])]_vars

\* ---- C3 ----------------------------------------------------------------
\* C3: removeEntity(e) / removeEntityById(e.id) on an entity of the population
\* leaves e out of the population and out of the dirty queue, and returns e.
C3_RemovedEntityIsGone ==
    (last.op \in {"removeEntity", "removeEntityById"} /\ last.preIn)
    => /\ last.ent \notin Range(entities)
       /\ last.ent \notin Range(entitiesSystemsDirty)
       /\ last.ret = last.ent

\* ---- C4 ----------------------------------------------------------------
\* C4: the dirty queue never holds an entity twice; after addComponent,
\* removeComponent of a held component, setSystemsDirty or addToECS on an
\* attached entity, however often repeated, the entity is in the queue once.
MarksDirty ==
    \/ last.op \in {"addComponent", "setSystemsDirty", "addEntity"}
    \/ last.op = "removeComponent" /\ last.name \in last.preNames

C4_DirtyAtMostOnce ==
    /\ \A e \in Entities : Count(entitiesSystemsDirty, e) <= 1
    /\ (MarksDirty /\ ecs[last.ent]) => Count(entitiesSystemsDirty, last.ent) = 1

\* an attached entity that was already dirty has been marked again
C4_Witness ==
    /\ last.op \in {"addComponent", "removeComponent", "setSystemsDirty"}
    /\ MarksDirty /\ ecs[last.ent] /\ last.preDirty
    /\ Count(entitiesSystemsDirty, last.ent) = 1

C7_MembershipFollowsOnNextTick ==
    [][\A e \in Range(entities), s \in Range(systems) :
          LET eligible == Required(s) \subseteq Present(components[e])
              wasEligible == Required(s) \subseteq last.preNames
          IN /\ (/\ last.op = "addComponent" /\ last.ent = e
                 /\ ~wasEligible /\ eligible /\ ~IsMember(s, e)
                 /\ last'.op = "update")
                => (e \in Range(sys_entities'[s])
                      /\ Count(events', <<"enter", s, e>>) = 1)
             /\ (/\ last.op = "removeComponent" /\ last.ent = e
                 /\ wasEligible /\ ~eligible /\ IsMember(s, e)
                 /\ last'.op = "update")
                => (e \notin Range(sys_entities'[s])
                      /\ Count(events', <<"exit", s, e>>) = 1)]_vars

\* ---- C8 ----------------------------------------------------------------
\* C8: after removeSystem(s) of an active system, s is not active, s.exit was
\* called exactly once for each entity that was a member, no entity has s in
\* entity.systems, and s's member list is empty.
\* (System.dispose assigns nothing to this.entities: the members before the
\* call are the entities in the list after it.)
C8_RemovedSystemIsEmptied ==
    (last.op = "removeSystem" /\ last.preIn) =>
        LET s == last.sys IN
        /\ s \notin Range(systems)
        /\ \A e \in Entities : s \notin Range(ent_systems[e])
        /\ \A e \in Range(sys_entities[s]) : Calls("exit", s, e) = 1
        /\ sys_entities[s] = <<>>

\* ---- C9 ----------------------------------------------------------------
\* C9: no member list ever holds an entity twice, so one updateAll calls
\* update at most once per entity, also after a system is removed and added
\* again.
C9_NoDuplicateMembers ==
    /\ \A s \in Systems, e \in Entities : Count(sys_entities[s], e) <= 1
    /\ last.op = "update" =>
          \A s \in Systems, e \in Entities :
              Calls("update", s, e) <= Calls("preUpdate", s, NoEntity)

\* ---- C10 ---------------------------------------------------------------
\* C10: updateComponent(name, data) on a component the entity holds sets
\* exactly the fields of data on that component, keeps the other fields and
\* the other components, and leaves the dirty flag, the dirty queue and every
\* membership as they were; updateComponents(map) does so for each entry.
C10_UpdateComponentFrame ==
    [][\A e \in Entities :
          (/\ last'.op \in {"updateComponent", "updateComponents"}
           /\ last'.ent = e
           /\ \A n \in Range(last'.keys) : components[e][n] # NoComponent)
          => /\ ~last'.error
             /\ components' = [components EXCEPT ![e] =
                   [n \in Names |->
                      IF n \in Range(last'.keys)
                      THEN [f \in Fields |->
                               IF f \in DOMAIN last'.componentsData[n]
                               THEN last'.componentsData[n][f]
                               ELSE components[e][n][f]]
                      ELSE components[e][n]]]
             /\ UNCHANGED <<systemsDirty, entitiesSystemsDirty, sys_entities,
                            ent_systems, entities, systems>>]_vars

\* a clean member of a system got field a of its component X set to 1 while
\* field b kept the 1 it had
C10_Witness ==
    /\ last.op = "updateComponent" /\ ~last.error /\ last.name = "X"
    /\ DOMAIN last.componentsData["X"] = {"a"}
    /\ last.componentsData["X"]["a"] = 1
    /\ components[last.ent]["X"] = [f \in Fields |-> 1]
    /\ ~systemsDirty[last.ent]
    /\ \E s \in Systems : IsMember(s, last.ent)

\* ---- C11 ---------------------------------------------------------------
\* C11: updateComponent(name, data) for a name the entity holds no component
\* of always ends in an error reported to the caller, for every data (also
\* data without fields), and leaves the dirty flag, the dirty queue, the
\* component map and all memberships as they were.
C11_UpdateAbsentComponentFails ==
    [][\A e \in Entities :
          (/\ last'.op = "updateComponent" /\ last'.ent = e
           /\ components[e][last'.name] = NoComponent)
          => /\ last'.error
             /\ UNCHANGED <<components, systemsDirty, entitiesSystemsDirty,
                            sys_entities, ent_systems>>]_vars

\* ---- C12 ---------------------------------------------------------------
\* C12: removeComponent(name) called again right after removeComponent(name)
\* on the same entity leaves the component map, the dirty flag and the dirty
\* queue as the first call left them; removeComponent of a name the entity
\* lacks changes nothing and does not mark the entity dirty.
C12_RemoveComponentIdempotent ==
    [][\A e \in Entities, n \in Names :
          (last'.op = "removeComponent" /\ last'.ent = e /\ last'.name = n)
          => /\ (last.op = "removeComponent" /\ last.ent = e /\ last.name = n)
                  => UNCHANGED <<components, systemsDirty, entitiesSystemsDirty>>
             /\ components[e][n] = NoComponent
                  => UNCHANGED <<components, systemsDirty, entitiesSystemsDirty,
                                 sys_entities, ent_systems, entities, systems>>]_vars

\* removeComponent of a name it lacks, on an attached entity that is clean
C12_Witness ==
    /\ last.op = "removeComponent"
    /\ last.name \notin last.preNames
    /\ ecs[last.ent] /\ ~last.preDirty /\ ~systemsDirty[last.ent]
    /\ last.ent \in Range(entities)

\* ---- C13 ---------------------------------------------------------------
\* C13: s.enter(e) is called only when s.test(e) is true, and an entity gets
\* into s's member list only then: an entity that never passes s.test is
\* never a member of s and never gets enter from s.
\* (No operation that calls a hook changes components, so test at the end of
\* the step is test at the moment of the call.)
C13_OnlyEligibleEntitiesEnter ==
    [][\A s \in Systems, e \in Entities :
          (\/ Count(events', <<"enter", s, e>>) > 0
           \/ Count(sys_entities'[s], e) > Count(sys_entities[s], e))
          => Required(s) \subseteq Present(components'[e])]_vars

\* a reconciliation admitted one entity to a system and left another, which
\* fails the test, out of it
C13_Witness ==
    /\ last.op = "update"
    /\ \E s \in Range(systems), e1, e2 \in Range(entities) :
          /\ Calls("enter", s, e1) = 1 /\ IsMember(s, e1)
          /\ ~(Required(s) \subseteq Present(components[e2]))
          /\ ~IsMember(s, e2)

\* ---- C14 ---------------------------------------------------------------
\* C14: when cleanDirtyEntities finishes, the dirty queue is empty, every
\* entity that was in it has systemsDirty = false, and each of them is in the
\* member list of an active system s iff s.test holds for it, also after
\* systems were removed and added again.
\* (update() runs cleanDirtyEntities iff the queue is not empty and the first
\* active system passes its gate; nothing after it in update() changes a
\* membership.)
C14_ReconciliationPostcondition ==
    [][(/\ last'.op = "update"
        /\ entitiesSystemsDirty # <<>>
        /\ systems # <<>>
        /\ ~gateMiss(updateCounter, frequency[systems[1]]))
       => /\ entitiesSystemsDirty' = <<>>
          /\ \A e \in Range(entitiesSystemsDirty) :
                /\ ~systemsDirty'[e]
                /\ \A s \in Range(systems') :
                      e \in Range(sys_entities'[s])
                        <=> Required(s) \subseteq Present(components'[e])]_vars

\* ---- C15 ---------------------------------------------------------------
\* C15: removeEntity(e) / removeEntityById(e.id) on an entity of the
\* population leaves the population as it was with exactly e taken out.
C15_RemovalTakesOutOnlyTheEntity ==
    [][\A e \in Range(entities) :
          (last'.op \in {"removeEntity", "removeEntityById"} /\ last'.ent = e)
          => entities' = SelectSeq(entities, LAMBDA x : x # e)]_vars

\* ---- C16 ---------------------------------------------------------------
\* C16: for every (entity, system) pair the calls of enter and exit
\* alternate, starting with enter: no enter while the last call was enter, no
\* exit unless the last call was enter.
RECURSIVE Alternates(_, _, _)
Alternates(cur, evs, i) ==
    IF i >= Len(evs) THEN TRUE
    ELSE LET ev == evs[i + 1]
             pair == <<ev[2], ev[3]>>
         IN /\ ev[1] = "enter" => pair \notin cur
            /\ ev[1] = "exit" => pair \in cur
            /\ Alternates(EnteredAfter(cur, <<ev>>, 0), evs, i + 1)

C16_EnterExitAlternate == [][Alternates(entered, events', 0)]_vars

\* ---- C17 ---------------------------------------------------------------
\* C17: in one update() call, no system at or after the first system in list
\* order whose gate misses (updateCounter mod frequency > 0) has updateAll
\* invoked, whatever its own frequency; the systems before it each run
\* exactly once, in list order; updateCounter grows by exactly 1.
FirstMiss(counter) ==
    LET missing == {i \in 1..Len(systems) :
                       counter % frequency[systems[i]] > 0}
    IN IF missing = {} THEN Len(systems) + 1
       ELSE CHOOSE i \in missing : \A j \in missing : i <= j

C18_DirtyEventuallyReconciled ==
    \A e \in Entities :
        (e \in Range(entitiesSystemsDirty))
            ~> (~systemsDirty[e] /\ e \notin Range(entitiesSystemsDirty))

\* ---- C19 ---------------------------------------------------------------
\* C19: an entity that removeEntity / removeEntityById returned and that was
\* not added again is in no system's member list, and no operation calls
\* enter or update of any system with it.
C19_NoResurrection ==
    \A e \in removed, s \in Systems :
        /\ ~IsMember(s, e)
        /\ Calls("enter", s, e) = 0
        /\ Calls("update", s, e) = 0

\* ---- C20 ---------------------------------------------------------------
\* C20: between operations an entity's systemsDirty flag is true exactly
\* when the entity is an element of the coordinator's entitiesSystemsDirty
\* queue, and an entity that was never attached to the coordinator has
\* systemsDirty = false.
C20_DirtyFlagAndQueueAgree ==
    \A e \in Entities :
        /\ systemsDirty[e] <=> e \in Range(entitiesSystemsDirty)
        /\ ~ecs[e] => ~systemsDirty[e]

\* one attached entity was reconciled by a tick and is clean, another one is
\* dirty and queued
C20_Witness ==
    \E e1, e2 \in Entities :
        /\ ecs[e1] /\ ~systemsDirty[e1] /\ e1 \notin Range(entitiesSystemsDirty)
        /\ systemsDirty[e2] /\ e2 \in Range(entitiesSystemsDirty)
        /\ \E s \in Systems : IsMember(s, e1)

====
